---- MODULE Spec2Model ----
(***************************************************************************)
(* State-machine model of the raj-app service worker (src/sw.js).  The     *)
(* file holds two worker scripts: the enhanced worker ("v2", lines 1-244,  *)
(* CACHE_NAME 'raj-app-v2') and the basic worker ("v1", lines 246-341,     *)
(* CACHE_NAME 'raj-app-v1').  The variable `worker` says which script is   *)
(* the one being installed, activated and asked to handle fetch events.    *)
(*                                                                         *)
(* Strings that the code inspects with includes()/startsWith() are kept as *)
(* sequences of characters so that the tests are computed as the code      *)
(* computes them.  The state itself holds short identifiers.               *)
(***************************************************************************)
EXTENDS Naturals, Sequences, FiniteSets

\* ---------------------------------------------------------------- bounds
\* Number of fetch events the worker is given (handlers may overlap).
NumFetchEvents == 2

\* ------------------------------------------------------- string utilities
\* String.prototype.includes
Includes(s, p) ==
    \E i \in 0..(Len(s) - Len(p)) : SubSeq(s, i + 1, i + Len(p)) = p

\* String.prototype.startsWith
StartsWith(s, p) ==
    /\ Len(p) <= Len(s)
    /\ SubSeq(s, 1, Len(p)) = p

\* ------------------------------------------------- literals of the source
\* 'https://'
SCHEME ==
    <<"h","t","t","p","s",":","/","/">>

\* 'drono-coder.github.io'
ORIGIN_HOST ==
    <<"d","r","o","n","o","-","c","o","d","e","r",".","g","i","t","h","u","b",".","i","o">>

\* '/raj-app'
BASE_PATH ==
    <<"/","r","a","j","-","a","p","p">>

\* 'firebase.googleapis.com'
S_firebase_googleapis ==
    <<"f","i","r","e","b","a","s","e",".","g","o","o","g","l","e","a","p","i","s",".","c","o","m">>

\* 'firestore.googleapis.com'
S_firestore_googleapis ==
    <<"f","i","r","e","s","t","o","r","e",".","g","o","o","g","l","e","a","p","i","s",".","c","o","m">>

\* 'identitytoolkit.googleapis.com'
S_identitytoolkit_googleapis ==
    <<"i","d","e","n","t","i","t","y","t","o","o","l","k","i","t",".","g","o","o","g","l","e","a","p","i","s",".","c","o","m">>

\* 'securetoken.googleapis.com'
S_securetoken_googleapis ==
    <<"s","e","c","u","r","e","t","o","k","e","n",".","g","o","o","g","l","e","a","p","i","s",".","c","o","m">>

\* 'googleapis.com'
S_googleapis ==
    <<"g","o","o","g","l","e","a","p","i","s",".","c","o","m">>

\* 'gstatic.com'
S_gstatic ==
    <<"g","s","t","a","t","i","c",".","c","o","m">>

\* 'firebase'
S_firebase ==
    <<"f","i","r","e","b","a","s","e">>

\* 'raj-app-'
S_raj_app_prefix ==
    <<"r","a","j","-","a","p","p","-">>

\* ------------------------------------------------------------- requests
\* Requests are named by short identifiers; Hostname and Pathname give the
\* parts of new URL(event.request.url) the handlers look at.
ManifestRequests ==
    {"root", "index", "manifest", "icon192", "icon512"}

SdkRequests ==
    {"sdkApp", "sdkAuth", "sdkFirestore"}

\* Requests a page of the application can issue besides the manifest ones:
\* an in-app route, a script that is not part of the app shell, a font from
\* fonts.gstatic.com and a Firestore API call.
OtherRequests ==
    {"orders", "appjs", "font", "api"}

Requests ==
    ManifestRequests \cup SdkRequests \cup OtherRequests

Hostname(r) ==
    CASE r \in SdkRequests -> <<"w","w","w",".","g","s","t","a","t","i","c",".","c","o","m">>
      [] r = "font" -> <<"f","o","n","t","s",".","g","s","t","a","t","i","c",".","c","o","m">>
      [] r = "api" -> <<"f","i","r","e","s","t","o","r","e",".","g","o","o","g","l","e","a","p","i","s",".","c","o","m">>
      [] OTHER -> ORIGIN_HOST

Pathname(r) ==
    CASE r = "root" -> BASE_PATH \o <<"/">>
      [] r = "index" -> BASE_PATH \o <<"/","i","n","d","e","x",".","h","t","m","l">>
      [] r = "manifest" -> BASE_PATH \o <<"/","m","a","n","i","f","e","s","t",".","j","s","o","n">>
      [] r = "icon192" -> BASE_PATH \o <<"/","i","c","o","n","s","/","i","c","o","n","s","-","1","9","2","x","1","9","2",".","j","p","g">>
      [] r = "icon512" -> BASE_PATH \o <<"/","i","c","o","n","s","/","i","c","o","n","s","-","5","1","2","x","5","1","2",".","j","p","g">>
      [] r = "sdkApp" -> <<"/","f","i","r","e","b","a","s","e","j","s","/","9",".","2","3",".","0","/","f","i","r","e","b","a","s","e","-","a","p","p","-","c","o","m","p","a","t",".","j","s">>
      [] r = "sdkAuth" -> <<"/","f","i","r","e","b","a","s","e","j","s","/","9",".","2","3",".","0","/","f","i","r","e","b","a","s","e","-","a","u","t","h","-","c","o","m","p","a","t",".","j","s">>
      [] r = "sdkFirestore" -> <<"/","f","i","r","e","b","a","s","e","j","s","/","9",".","2","3",".","0","/","f","i","r","e","b","a","s","e","-","f","i","r","e","s","t","o","r","e","-","c","o","m","p","a","t",".","j","s">>
      [] r = "orders" -> BASE_PATH \o <<"/","o","r","d","e","r","s">>
      [] r = "appjs" -> BASE_PATH \o <<"/","a","p","p",".","j","s">>
      [] r = "font" -> <<"/","s","/","r","o","b","o","t","o",".","w","o","f","f","2">>
      [] r = "api" -> <<"/","v","1","/","p","r","o","j","e","c","t","s","/","r","a","j","/","d","o","c","u","m","e","n","t","s">>

\* event.request.url
Url(r) ==
    SCHEME \o Hostname(r) \o Pathname(r)

\* event.request.mode === 'navigate'
IsNavigate(r) ==
    r \in {"root", "index", "orders"}

\* Response.type of a network response: 'basic' for a same-origin request,
\* 'cors' for a cross-origin one.
ResponseType(r) ==
    IF Hostname(r) = ORIGIN_HOST THEN "basic" ELSE "cors"

\* ------------------------------------------------------------- cache stores
\* Names of the cache stores of the origin: the two version tags of the
\* source and a store that does not carry the 'raj-app-' prefix.
StoreNames ==
    {"raj-app-v2", "raj-app-v1", "workbox-precache"}

\* The characters of a store name, as startsWith() sees them.
NameChars(n) ==
    CASE n = "raj-app-v2" -> S_raj_app_prefix \o <<"v","2">>
      [] n = "raj-app-v1" -> S_raj_app_prefix \o <<"v","1">>
      [] n = "workbox-precache" ->
           <<"w","o","r","k","b","o","x","-","p","r","e","c","a","c","h","e">>

VARIABLES
    worker,       \* "v2" or "v1": the script this worker runs
    lifecycle,    \* "installing", "installed", "activating", "activated", "redundant"
    storeOrder,   \* the existing stores, in creation order (caches.keys())
    storeData,    \* store name -> set of entries [key, resp]
    install,      \* the install handler: [pc, seed, promise, skipWaiting]
    activate,     \* activate listener -> [pc, pending]
    deletedStores,\* names of the stores a caches.delete removed
    claimed,      \* clients.claim() has been called
    fetchH        \* fetch event -> state of its handler

vars ==
    <<worker, lifecycle, storeOrder, storeData, install, activate, deletedStores,
      claimed, fetchH>>

\* const CACHE_NAME
CACHE_NAME ==
    IF worker = "v2" THEN "raj-app-v2" ELSE "raj-app-v1"

\* const urlsToCache
urlsToCache ==
    IF worker = "v2" THEN ManifestRequests \cup SdkRequests ELSE ManifestRequests

\* ------------------------------------------------------------ responses
Response(status, type, body) ==
    [kind |-> "response", status |-> status, type |-> type, body |-> body]

\* No value yet.
NoValue ==
    [kind |-> "none", status |-> 0, type |-> "none", body |-> <<>>]

\* The JavaScript value undefined (a lookup that found nothing, a callback
\* that returned nothing).
Undefined ==
    [kind |-> "undefined", status |-> 0, type |-> "none", body |-> <<>>]

\* A rejected promise given to respondWith, or a response whose body was
\* already read: the caller sees a network error.
NetworkError ==
    [kind |-> "error", status |-> 0, type |-> "error", body |-> <<>>]

\* The request was not intercepted: the browser's network stack answers it.
NotIntercepted ==
    [kind |-> "browser", status |-> 0, type |-> "none", body |-> <<>>]

\* The body of the document the network serves for request r; `origin` and
\* `n` tell the fetches apart ("old": stored by an earlier generation,
\* "install": fetched by cache.addAll, "fetch": fetched by fetch handler n).
Body(r, origin, n) ==
    <<r, origin, n>>

\* Variant of CachePut that keeps the entry a key already has.
CachePut_KeepFirst(entries, key, resp) ==
    IF \E e \in entries : e.key = key
    THEN entries
    ELSE entries \cup {[key |-> key, resp |-> resp]}

\* Cache.put: the entry of the same key is replaced.
CachePut(entries, key, resp) ==
    {e \in entries : e.key # key} \cup {[key |-> key, resp |-> resp]}

\* Cache.match on one store.
CacheMatch(entries, key) ==
    IF \E e \in entries : e.key = key
    THEN (CHOOSE e \in entries : e.key = key).resp
    ELSE Undefined

RECURSIVE MatchInOrder(_, _, _)
MatchInOrder(order, data, key) ==
    IF order = <<>> THEN Undefined
    ELSE IF CacheMatch(data[Head(order)], key) # Undefined
         THEN CacheMatch(data[Head(order)], key)
         ELSE MatchInOrder(Tail(order), data, key)

\* CacheStorage.match: the stores are searched in creation order.
CachesMatch(key) ==
    MatchInOrder(storeOrder, storeData, key)

\* CacheStorage.open: the store is created when it does not exist.
OpenedOrder(name) ==
    IF \E i \in 1..Len(storeOrder) : storeOrder[i] = name
    THEN storeOrder
    ELSE Append(storeOrder, name)

RECURSIVE Without(_, _)
Without(order, name) ==
    IF order = <<>> THEN <<>>
    ELSE IF Head(order) = name THEN Without(Tail(order), name)
         ELSE <<Head(order)>> \o Without(Tail(order), name)

Exists(name) ==
    \E i \in 1..Len(storeOrder) : storeOrder[i] = name

\* ---------------------------------------------------------- initial state
EmptyStores ==
    [n \in StoreNames |-> {}]

\* A response stored by an earlier generation of the worker.
OldResponse(r) ==
    Response(200, ResponseType(r), Body(r, "old", 0))

OtherTag(w) ==
    IF w = "v2" THEN "raj-app-v1" ELSE "raj-app-v2"

OwnTag(w) ==
    IF w = "v2" THEN "raj-app-v2" ELSE "raj-app-v1"

\* What the origin's cache storage can hold when the worker script is first
\* run: nothing (first visit); the store of the other version and a store of
\* another library; a store of this version left by an earlier run that holds
\* the root document only.
InitialStorage(w) ==
    { [order |-> <<>>, data |-> EmptyStores],
      [order |-> <<OtherTag(w), "workbox-precache">>,
       data  |-> [EmptyStores EXCEPT
                    ![OtherTag(w)] = {[key |-> "index", resp |-> OldResponse("index")]},
                    !["workbox-precache"] = {[key |-> "appjs", resp |-> OldResponse("appjs")]}]],
      [order |-> <<OwnTag(w)>>,
       data  |-> [EmptyStores EXCEPT
                    ![OwnTag(w)] = {[key |-> "root", resp |-> OldResponse("root")]}]] }

\* The activate listeners the script registers: the v2 script registers two
\* (lines 40 and 228), the v1 script one (line 280).
ActivateHandlers ==
    IF worker = "v2" THEN {"first", "second"} ELSE {"first"}

FetchEvents ==
    1..NumFetchEvents

IdleFetch ==
    [pc |-> "idle", req |-> "none", class |-> "none", responded |-> FALSE,
     cacheRead |-> FALSE, fetched |-> FALSE, hit |-> NoValue, net |-> NoValue,
     delivered |-> NoValue, origUsed |-> FALSE, wpc |-> "none", wrote |-> FALSE,
     logged |-> FALSE, unhandled |-> FALSE]

Init ==
    /\ worker \in {"v2", "v1"}
    /\ lifecycle = "installing"
    /\ \E s \in InitialStorage(worker) :
          /\ storeOrder = s.order
          /\ storeData = s.data
    /\ install = [pc |-> "start", seed |-> "pending", promise |-> "pending",
                  skipWaiting |-> FALSE, logged |-> FALSE]
    /\ activate = [a \in {"first", "second"} |-> [pc |-> "idle", pending |-> {}]]
    /\ deletedStores = {}
    /\ claimed = FALSE
    /\ fetchH = [h \in FetchEvents |-> IdleFetch]

\* ------------------------------------------------------- install listener
\* caches.open(CACHE_NAME) of the install listener.
InstallOpen ==
    /\ lifecycle = "installing"
    /\ install.pc = "start"
    /\ storeOrder' = OpenedOrder(CACHE_NAME)
    /\ install' = [install EXCEPT !.pc = "opened"]
    /\ UNCHANGED <<worker, lifecycle, storeData, activate, deletedStores, claimed, fetchH>>

\* A response fetched by cache.addAll.
SeedResponse(r) ==
    Response(200, ResponseType(r), Body(r, "install", 0))

\* Variant of AddAll that stores each URL as soon as its own fetch succeeded
\* (as a loop of cache.add would).
AddAll_Partial(entries, urls, failed) ==
    {e \in entries : e.key \notin (urls \ failed)}
        \cup {[key |-> u, resp |-> SeedResponse(u)] : u \in urls \ failed}

\* cache.addAll(urlsToCache): every URL is fetched; the entries are stored
\* only when every fetch succeeded, otherwise the promise rejects and nothing
\* is stored.
AddAll(entries, urls, failed) ==
    IF failed = {} THEN
        {e \in entries : e.key \notin urls}
            \cup {[key |-> u, resp |-> SeedResponse(u)] : u \in urls}
    ELSE entries

\* The state of the promise given to event.waitUntil by the install listener:
\* .then(skipWaiting) on success, .catch(console.error) on failure.
\* When addAll rejects, the .catch callback logs and returns normally, so the
\* chain fulfils in that case too.
InstallPromise(addAllOk) ==
    CASE addAllOk -> "fulfilled"
      [] ~addAllOk -> "fulfilled"

\* cache.addAll and the rest of the promise chain of the install listener.
\* `failed` is the set of manifest URLs whose fetch fails.
InstallAddAll ==
    /\ lifecycle = "installing"
    /\ install.pc = "opened"
    /\ \E failed \in SUBSET urlsToCache :
          /\ storeData' = [storeData EXCEPT
                             ![CACHE_NAME] = AddAll(@, urlsToCache, failed)]
          /\ install' = [pc |-> "done",
                         seed |-> IF failed = {} THEN "ok" ELSE "failed",
                         promise |-> InstallPromise(failed = {}),
                         skipWaiting |-> (failed = {}),
                         logged |-> (failed # {})]
    /\ UNCHANGED <<worker, lifecycle, storeOrder, activate, deletedStores, claimed, fetchH>>

\* The host ends the install event: the worker becomes installed when the
\* promise given to waitUntil fulfilled and redundant when it rejected.
InstallSettled ==
    /\ lifecycle = "installing"
    /\ install.promise # "pending"
    /\ lifecycle' = IF install.promise = "fulfilled" THEN "installed" ELSE "redundant"
    /\ UNCHANGED <<worker, storeOrder, storeData, install, activate, deletedStores, claimed, fetchH>>

\* ------------------------------------------------------ activate listeners
\* Variant of IsStaleFirst that only looks at stores with the app's prefix.
IsStaleFirst_PrefixOnly(cacheName) ==
    /\ StartsWith(NameChars(cacheName), S_raj_app_prefix)
    /\ cacheName # CACHE_NAME

\* Variant of IsStaleFirst that deletes every store it is given.
IsStaleFirst_All(cacheName) ==
    TRUE

\* cacheName !== CACHE_NAME (lines 46 and 286)
IsStaleFirst(cacheName) ==
    cacheName # CACHE_NAME

\* Variant of IsStaleSecond without the comparison with CACHE_NAME.
IsStaleSecond_AnyPrefixed(cacheName) ==
    StartsWith(NameChars(cacheName), S_raj_app_prefix)

\* cacheName.startsWith('raj-app-') && cacheName !== CACHE_NAME (line 234)
IsStaleSecond(cacheName) ==
    /\ StartsWith(NameChars(cacheName), S_raj_app_prefix)
    /\ cacheName # CACHE_NAME

IsStale(a, cacheName) ==
    IF a = "first" THEN IsStaleFirst(cacheName) ELSE IsStaleSecond(cacheName)

\* The host dispatches the activate event to every registered listener; each
\* listener calls caches.keys() inside event.waitUntil.
ActivateEvent ==
    /\ lifecycle = "installed"
    /\ lifecycle' = "activating"
    /\ activate' = [a \in {"first", "second"} |->
                      IF a \in ActivateHandlers
                      THEN [activate[a] EXCEPT !.pc = "keys"]
                      ELSE activate[a]]
    /\ UNCHANGED <<worker, storeOrder, storeData, install, deletedStores, claimed, fetchH>>

\* caches.keys() resolves; the callback starts caches.delete for every stale
\* name of the list (Promise.all over cacheNames.map).
ActivateKeys(a) ==
    /\ activate[a].pc = "keys"
    /\ activate' = [activate EXCEPT
                      ![a] = [pc |-> "deleting",
                              pending |-> {storeOrder[i] : i \in
                                  {j \in 1..Len(storeOrder) : IsStale(a, storeOrder[j])}}]]
    /\ UNCHANGED <<worker, lifecycle, storeOrder, storeData, install, deletedStores, claimed, fetchH>>

\* One caches.delete(cacheName) completes; deletedStores keeps the names
\* whose store was removed (the promise resolved with true).
ActivateDelete(a) ==
    /\ activate[a].pc = "deleting"
    /\ \E n \in activate[a].pending :
          /\ storeOrder' = Without(storeOrder, n)
          /\ storeData' = [storeData EXCEPT ![n] = {}]
          /\ activate' = [activate EXCEPT ![a].pending = @ \ {n}]
          /\ deletedStores' = IF Exists(n) THEN deletedStores \cup {n}
                                           ELSE deletedStores
    /\ UNCHANGED <<worker, lifecycle, install, claimed, fetchH>>

\* Variant of ActivateFinish whose claim does not wait for Promise.all.
ActivateFinish_ClaimEarly(a) ==
    /\ activate[a].pc = "deleting"
    /\ activate' = [activate EXCEPT ![a].pc = "done"]
    /\ claimed' = (claimed \/ a = "first")
    /\ UNCHANGED <<worker, lifecycle, storeOrder, storeData, install, deletedStores, fetchH>>

\* Promise.all resolves once every delete completed; the first listener then
\* calls self.clients.claim() (lines 52-55, 292-295), the second does not.
ActivateFinish(a) ==
    /\ activate[a].pc = "deleting"
    /\ activate[a].pending = {}
    /\ activate' = [activate EXCEPT ![a].pc = "done"]
    /\ claimed' = (claimed \/ a = "first")
    /\ UNCHANGED <<worker, lifecycle, storeOrder, storeData, install, deletedStores, fetchH>>

\* The host ends the activate event once every listener's waitUntil promise
\* settled; from then on fetch events are dispatched to this worker.
Activated ==
    /\ lifecycle = "activating"
    /\ \A a \in ActivateHandlers : activate[a].pc = "done"
    /\ lifecycle' = "activated"
    /\ UNCHANGED <<worker, storeOrder, storeData, install, activate, deletedStores, claimed, fetchH>>

\* --------------------------------------------------------- fetch listener
\* Variant of IsExcludedHost that forgets the gstatic.com clause.
IsExcludedHost_NoGstatic(r) ==
    \/ Includes(Hostname(r), S_firebase_googleapis)
    \/ Includes(Hostname(r), S_firestore_googleapis)
    \/ Includes(Hostname(r), S_identitytoolkit_googleapis)
    \/ Includes(Hostname(r), S_securetoken_googleapis)
    \/ Includes(Hostname(r), S_googleapis)

\* The v2 listener's test of requestUrl.hostname (lines 64-69).
IsExcludedHost(r) ==
    \/ Includes(Hostname(r), S_firebase_googleapis)
    \/ Includes(Hostname(r), S_firestore_googleapis)
    \/ Includes(Hostname(r), S_identitytoolkit_googleapis)
    \/ Includes(Hostname(r), S_securetoken_googleapis)
    \/ Includes(Hostname(r), S_googleapis)
    \/ Includes(Hostname(r), S_gstatic)

\* The v2 listener's test for Firebase SDK files (line 72).
IsSdkAsset(r) ==
    /\ Includes(Hostname(r), S_gstatic)
    /\ Includes(Pathname(r), S_firebase)

\* The v1 listener's test of event.request.url (lines 302-304).
IsSkippedUrl(r) ==
    \/ Includes(Url(r), S_firestore_googleapis)
    \/ Includes(Url(r), S_firebase_googleapis)
    \/ Includes(Url(r), S_googleapis)

\* Variant of ClassifyV2 without the SDK-asset branch of line 72.
ClassifyV2_NoSdkBranch(r) ==
    IF IsExcludedHost(r) THEN "passthrough" ELSE "app"

\* What the listener does with request r: return without respondWith
\* ("passthrough"), the SDK cache-first chain of lines 73-81 ("sdk"), or the
\* cache-first chain of lines 90-139 / 308-340 ("app").
ClassifyV2(r) ==
    IF IsExcludedHost(r)
    THEN IF IsSdkAsset(r) THEN "sdk" ELSE "passthrough"
    ELSE "app"

ClassifyV1(r) ==
    IF IsSkippedUrl(r) THEN "passthrough" ELSE "app"

Classify(r) ==
    IF worker = "v2" THEN ClassifyV2(r) ELSE ClassifyV1(r)

\* The requests the pages send while the worker is active.
FetchRequests ==
    {"index", "orders", "appjs", "sdkApp", "font", "api"}

\* The network's answer to fetch(event.request) of fetch event h.
NetworkResponse(r, h, outcome) ==
    IF outcome = "ok"
    THEN Response(200, ResponseType(r), Body(r, "fetch", h))
    ELSE Response(404, ResponseType(r), Body(r, "fetch", h))

\* Variant of IsCacheable that does not look at the status.
IsCacheable_AnyStatus(resp) ==
    ~(resp.kind # "response" \/ resp.type # "basic")

\* !response || response.status !== 200 || response.type !== 'basic' is false
\* (lines 104 and 320).
IsCacheable(resp) ==
    ~(resp.kind # "response" \/ resp.status # 200 \/ resp.type # "basic")

\* Variant of OfflineResponse with an internal-error status.
OfflineResponse_500 ==
    Response(500, "default", <<"Offline - resource not available">>)

\* new Response('Offline - resource not available', {status: 503, ...})
OfflineResponse ==
    Response(503, "default", <<"Offline - resource not available">>)

\* The value of the catch callback for a request that is not a navigation:
\* the v2 callback builds the offline response (lines 134-137), the v1
\* callback returns nothing (lines 333-338).
CatchValue ==
    IF worker = "v2" THEN OfflineResponse ELSE Undefined

\* caches.match(BASE_PATH + '/index.html') || caches.match(BASE_PATH + '/'):
\* the left operand is a Promise object, which is truthy, so the value of
\* the expression is the left promise (lines 129-130).
FallbackKey ==
    LET leftIsTruthy == TRUE
    IN  IF leftIsTruthy THEN "index" ELSE "root"

\* Variant of ResponseToCache that hands cache.put the response itself.
ResponseToCache_NoClone ==
    "orig"

\* The object handed to cache.put: the clone made at lines 109 / 325.
ResponseToCache ==
    "clone"

\* Variant of WriteStoreName with the name of the v1 store written out.
WriteStoreName_Literal ==
    "raj-app-v1"

\* The store the cache write opens: caches.open(CACHE_NAME) (lines 112, 326).
WriteStoreName ==
    CACHE_NAME

\* Whether a rejection of the cache write is handled.  v2: the .catch of line
\* 116 is chained on caches.open(...).then(callback), and the callback does
\* not return the promise of cache.put, so only a failed open reaches it.
\* v1 (lines 326-329) has no catch.
WriteFailureCaught(stage) ==
    /\ worker = "v2"
    /\ stage = "open"

\* The listener of fetch event h runs for request r (lines 60-91, 300-309).
FetchEvent(h) ==
    /\ lifecycle = "activated"
    /\ fetchH[h].pc = "idle"
    /\ IF h = 1 THEN TRUE ELSE fetchH[h - 1].pc # "idle"
    /\ \E r \in FetchRequests :
          fetchH' = [fetchH EXCEPT ![h] =
              IF Classify(r) = "passthrough"
              THEN [@ EXCEPT !.pc = "done", !.req = r, !.class = "passthrough",
                             !.delivered = NotIntercepted]
              ELSE [@ EXCEPT !.pc = "match", !.req = r, !.class = Classify(r),
                             !.responded = TRUE]]
    /\ UNCHANGED <<worker, lifecycle, storeOrder, storeData, install, activate, deletedStores, claimed>>

\* Variant of AfterMatch that goes to the network whatever the store holds.
AfterMatch_NetworkFirst(f, m) ==
    [f EXCEPT !.pc = "fetch", !.cacheRead = TRUE, !.hit = m]

\* The callback of caches.match(event.request) with the value m it resolved
\* with: a cached response is returned, otherwise fetch(event.request) is
\* called (lines 75-80, 92-101, 310-317).
AfterMatch(f, m) ==
    IF m # Undefined
    THEN [f EXCEPT !.pc = "done", !.cacheRead = TRUE, !.hit = m, !.delivered = m]
    ELSE [f EXCEPT !.pc = "fetch", !.cacheRead = TRUE, !.hit = m]

\* caches.match(event.request) resolves (lines 74, 91, 309).
FetchMatch(h) ==
    /\ fetchH[h].pc = "match"
    /\ fetchH' = [fetchH EXCEPT ![h] = AfterMatch(@, CachesMatch(@.req))]
    /\ UNCHANGED <<worker, lifecycle, storeOrder, storeData, install, activate, deletedStores, claimed>>

\* Variant of AfterNetworkFailure whose catch callback does not look at
\* event.request.mode.
AfterNetworkFailure_NoNavigationBranch(f) ==
    CASE f.class = "sdk" ->
           [f EXCEPT !.pc = "done", !.fetched = TRUE, !.delivered = NetworkError]
      [] OTHER ->
           [f EXCEPT !.pc = "done", !.fetched = TRUE, !.delivered = CatchValue]

\* fetch(event.request) rejects: the SDK chain has no catch (lines 73-81); the
\* app chain runs its catch callback (lines 124-138, 333-338).
AfterNetworkFailure(f) ==
    CASE f.class = "sdk" ->
           [f EXCEPT !.pc = "done", !.fetched = TRUE, !.delivered = NetworkError]
      [] f.class = "app" /\ worker = "v2" /\ IsNavigate(f.req) ->
           [f EXCEPT !.pc = "catch", !.fetched = TRUE]
      [] OTHER ->
           [f EXCEPT !.pc = "done", !.fetched = TRUE, !.delivered = CatchValue]

\* fetch(event.request) resolves with resp (lines 79, 101-121, 317-332).
AfterNetworkResponse(f, resp) ==
    IF f.class = "app" /\ IsCacheable(resp)
    THEN [f EXCEPT !.pc = "respond", !.fetched = TRUE, !.net = resp, !.wpc = "open"]
    ELSE [f EXCEPT !.pc = "done", !.fetched = TRUE, !.net = resp, !.delivered = resp]

\* The network answers the fetch of a cache miss.
FetchNetwork(h) ==
    /\ fetchH[h].pc = "fetch"
    /\ \E outcome \in {"ok", "notfound", "fail"} :
          fetchH' = [fetchH EXCEPT ![h] =
              IF outcome = "fail"
              THEN AfterNetworkFailure(@)
              ELSE AfterNetworkResponse(@, NetworkResponse(@.req, h, outcome))]
    /\ UNCHANGED <<worker, lifecycle, storeOrder, storeData, install, activate, deletedStores, claimed>>

\* The navigation fallback of the v2 catch callback resolves (lines 128-131).
FetchFallback(h) ==
    /\ fetchH[h].pc = "catch"
    /\ fetchH' = [fetchH EXCEPT ![h] =
                    [@ EXCEPT !.pc = "done", !.delivered = CachesMatch(FallbackKey)]]
    /\ UNCHANGED <<worker, lifecycle, storeOrder, storeData, install, activate, deletedStores, claimed>>

\* The promise given to respondWith resolved with `response` (lines 120, 331);
\* the browser reads its body for the caller.  A body that was already read
\* cannot be read again.
FetchRespond(h) ==
    /\ fetchH[h].pc = "respond"
    /\ fetchH' = [fetchH EXCEPT ![h] =
                    [@ EXCEPT !.pc = "done", !.origUsed = TRUE,
                              !.delivered = IF fetchH[h].origUsed THEN NetworkError
                                             ELSE fetchH[h].net]]
    /\ UNCHANGED <<worker, lifecycle, storeOrder, storeData, install, activate, deletedStores, claimed>>

\* caches.open(CACHE_NAME) of the cache write settles (lines 112, 326).
WriteOpen(h) ==
    /\ fetchH[h].wpc = "open"
    /\ \E ok \in BOOLEAN :
          IF ok
          THEN /\ storeOrder' = OpenedOrder(WriteStoreName)
               /\ fetchH' = [fetchH EXCEPT ![h].wpc = "put"]
          ELSE /\ storeOrder' = storeOrder
               /\ fetchH' = [fetchH EXCEPT ![h] =
                     [@ EXCEPT !.wpc = "failed",
                               !.logged = WriteFailureCaught("open"),
                               !.unhandled = ~WriteFailureCaught("open")]]
    /\ UNCHANGED <<worker, lifecycle, storeData, install, activate, deletedStores, claimed>>

\* cache.put(event.request, responseToCache) settles (lines 114, 328).  put
\* reads the body of the object it is given and rejects when that body was
\* already read.
WritePut(h) ==
    /\ fetchH[h].wpc = "put"
    /\ \E ok \in BOOLEAN :
          IF ok /\ ~(ResponseToCache = "orig" /\ fetchH[h].origUsed)
          THEN /\ storeData' = [storeData EXCEPT ![WriteStoreName] =
                                  CachePut(@, fetchH[h].req, fetchH[h].net)]
               /\ fetchH' = [fetchH EXCEPT ![h] =
                     [@ EXCEPT !.wpc = "done", !.wrote = TRUE,
                               !.origUsed = (fetchH[h].origUsed \/ ResponseToCache = "orig")]]
          ELSE /\ storeData' = storeData
               /\ fetchH' = [fetchH EXCEPT ![h] =
                     [@ EXCEPT !.wpc = "failed",
                               !.logged = WriteFailureCaught("put"),
                               !.unhandled = ~WriteFailureCaught("put")]]
    /\ UNCHANGED <<worker, lifecycle, storeOrder, install, activate, deletedStores, claimed>>

\* ---------------------------------------------------------- specification
Next ==
    \/ InstallOpen
    \/ InstallAddAll
    \/ InstallSettled
    \/ ActivateEvent
    \/ \E a \in {"first", "second"} : ActivateKeys(a)
    \/ \E a \in {"first", "second"} : ActivateDelete(a)
    \/ \E a \in {"first", "second"} : ActivateFinish(a)
    \/ Activated
    \/ \E h \in FetchEvents : FetchEvent(h)
    \/ \E h \in FetchEvents : FetchMatch(h)
    \/ \E h \in FetchEvents : FetchNetwork(h)
    \/ \E h \in FetchEvents : FetchFallback(h)
    \/ \E h \in FetchEvents : FetchRespond(h)
    \/ \E h \in FetchEvents : WriteOpen(h)
    \/ \E h \in FetchEvents : WritePut(h)

Spec ==
    Init /\ [][Next]_vars

\* ------------------------------------------------------------ properties
\* The fetch events whose listener has run.
Started ==
    {h \in FetchEvents : fetchH[h].pc # "idle"}

\* The fetch events whose respondWith promise settled (or whose listener
\* returned without respondWith).
Settled ==
    {h \in FetchEvents : fetchH[h].pc = "done"}

\* The handler of h went to the network after a cache miss and the fetch
\* rejected.
NetworkFailed(h) ==
    /\ fetchH[h].fetched
    /\ fetchH[h].net = NoValue
    /\ fetchH[h].pc \in {"catch", "done"}

\* The handler touched no cache store and did not call respondWith.
Untouched(h) ==
    /\ ~fetchH[h].responded
    /\ ~fetchH[h].cacheRead
    /\ ~fetchH[h].wrote
    /\ fetchH[h].wpc = "none"
    /\ ~fetchH[h].fetched
    /\ fetchH[h].delivered = NotIntercepted

\* C1 as stated: every fetch event whose request hostname contains
\* googleapis.com or gstatic.com is left alone by the listener: no cache
\* store is read or written and respondWith is not called.
C1_ExcludedHostsUntouched ==
    \A h \in Started :
        (\/ Includes(Hostname(fetchH[h].req), S_googleapis)
         \/ Includes(Hostname(fetchH[h].req), S_gstatic))
        => Untouched(h)

\* C1 (amended): a fetch event is left alone by the listener (no cache store
\* read or written, no respondWith) when its hostname contains googleapis.com
\* and, in the v2 worker, when its hostname contains gstatic.com and its path
\* does not contain 'firebase'.
C1_PassthroughHostsUntouched ==
    \A h \in Started :
        (\/ Includes(Hostname(fetchH[h].req), S_googleapis)
         \/ /\ worker = "v2"
            /\ Includes(Hostname(fetchH[h].req), S_gstatic)
            /\ ~Includes(Pathname(fetchH[h].req), S_firebase))
        => Untouched(h)

\* Both kinds of passthrough request have been handled by the v2 listener.
C1_Witness ==
    /\ worker = "v2"
    /\ \E h \in Settled : fetchH[h].req = "font" /\ Untouched(h)
    /\ \E h \in Settled : fetchH[h].req = "api" /\ Untouched(h)

\* The entries of the current-version store keyed by request r.
EntriesFor(r) ==
    {e \in storeData[CACHE_NAME] : e.key = r}

\* Fetch event h was an app-asset request that missed every store, got a
\* normal 200 response from the network, and both the answer to the caller
\* and the cache write have finished.
CacheableMissFinished(h) ==
    /\ fetchH[h].class = "app"
    /\ fetchH[h].hit = Undefined
    /\ fetchH[h].net.kind = "response"
    /\ fetchH[h].net.status = 200
    /\ fetchH[h].net.type = "basic"
    /\ fetchH[h].pc = "done"
    /\ fetchH[h].wpc \in {"done", "failed"}

\* C2 as stated: after an app-asset miss answered by the network with a
\* normal 200 response, the current-version store holds exactly one entry
\* keyed by the request and the caller got the body of the network response.
C2_MissStoresOneEntry ==
    \A h \in FetchEvents :
        CacheableMissFinished(h)
        => /\ Cardinality(EntriesFor(fetchH[h].req)) = 1
           /\ fetchH[h].delivered.kind = "response"
           /\ fetchH[h].delivered.body = fetchH[h].net.body

\* C2 (amended): after an app-asset miss answered by the network with a
\* normal 200 response, the caller gets the network response with its body
\* intact; when the cache write succeeded the current-version store holds
\* exactly one entry keyed by the request, a copy of a network response for
\* it; when the cache write failed the handler stored nothing.
C2_MissStoresOneEntryUnlessWriteFails ==
    \A h \in FetchEvents :
        CacheableMissFinished(h)
        => /\ fetchH[h].delivered = fetchH[h].net
           /\ fetchH[h].delivered.body = Body(fetchH[h].req, "fetch", h)
           /\ fetchH[h].wpc = "done" =>
                 /\ Cardinality(EntriesFor(fetchH[h].req)) = 1
                 /\ \A e \in EntriesFor(fetchH[h].req) :
                       /\ e.resp.status = 200
                       /\ e.resp.body[1] = fetchH[h].req
                       /\ e.resp.body[2] = "fetch"
           /\ fetchH[h].wpc = "failed" => ~fetchH[h].wrote

\* A miss was answered by the network and stored: the store's entry for the
\* request is the response the caller got.
C2_Witness ==
    \E h \in FetchEvents :
        /\ CacheableMissFinished(h)
        /\ fetchH[h].wpc = "done"
        /\ fetchH[h].delivered = fetchH[h].net
        /\ EntriesFor(fetchH[h].req) = {[key |-> fetchH[h].req, resp |-> fetchH[h].net]}

\* C3: once the activate event has completed, the only store that exists is
\* the one named by the current version tag, and it exists at most once.
C3_OnlyCurrentStoreAfterActivate ==
    lifecycle = "activated"
    => /\ \A i \in 1..Len(storeOrder) : storeOrder[i] = CACHE_NAME
       /\ Len(storeOrder) <= 1

\* The v2 worker was activated where raj-app-v1 and a store of another
\* library existed; both were deleted and raj-app-v2 is what is left.
C3_Witness ==
    /\ worker = "v2"
    /\ lifecycle = "activated"
    /\ deletedStores = {"raj-app-v1", "workbox-precache"}
    /\ storeOrder = <<"raj-app-v2">>

\* Fetch event h was a non-navigation app-asset request that missed the
\* cache and whose network fetch failed; the handler has answered.
OfflineMissAnswered(h) ==
    /\ fetchH[h].class = "app"
    /\ ~IsNavigate(fetchH[h].req)
    /\ fetchH[h].hit = Undefined
    /\ NetworkFailed(h)
    /\ fetchH[h].pc = "done"

OfflineNavigationAnswered(h) ==
    /\ worker = "v2"
    /\ install.seed = "ok"
    /\ fetchH[h].class = "app"
    /\ IsNavigate(fetchH[h].req)
    /\ fetchH[h].hit = Undefined
    /\ NetworkFailed(h)
    /\ fetchH[h].pc = "done"

C6_FailedSeedAbortsInstall ==
    install.seed = "failed"
    => /\ install.promise # "fulfilled"
       /\ lifecycle \notin {"installed", "activating", "activated"}

\* C7 as stated: whenever the network fetch fails after a cache miss in a
\* cache-first chain (app asset or SDK asset, navigation or not), the caller
\* is given a response: the respondWith promise neither rejects nor resolves
\* with undefined.
C7_NetworkFailureGetsResponse ==
    \A h \in FetchEvents :
        (/\ fetchH[h].class \in {"app", "sdk"}
         /\ fetchH[h].hit = Undefined
         /\ NetworkFailed(h)
         /\ fetchH[h].pc = "done")
        => fetchH[h].delivered.kind = "response"

\* C8: after a seed that succeeded, the current-version store exists and a
\* lookup in it finds a stored response for every URL of the manifest list.
C8_SeededManifestPresent ==
    install.seed = "ok"
    => /\ Exists(CACHE_NAME)
       /\ \A u \in urlsToCache :
             /\ CacheMatch(storeData[CACHE_NAME], u).kind = "response"
             /\ CacheMatch(storeData[CACHE_NAME], u).body[1] = u

\* The v2 worker was seeded and activated where other stores existed, and a
\* fetch of a manifest URL was answered from the seeded store.
C8_Witness ==
    /\ worker = "v2"
    /\ install.seed = "ok"
    /\ lifecycle = "activated"
    /\ deletedStores # {}
    /\ \E h \in Settled :
          /\ fetchH[h].req = "sdkApp"
          /\ fetchH[h].delivered = SeedResponse("sdkApp")

\* C9 as stated: a failed cache write (open or put) is caught and logged by
\* the handler, leaves no unhandled rejection, and the caller still gets the
\* network response.
C9_WriteFailureCaught ==
    \A h \in FetchEvents :
        fetchH[h].wpc = "failed"
        => /\ fetchH[h].logged
           /\ ~fetchH[h].unhandled
           /\ fetchH[h].pc = "done" => fetchH[h].delivered = fetchH[h].net

\* Fetch event h was an app-asset request whose key was found in the store.
CacheHit(h) ==
    /\ fetchH[h].class = "app"
    /\ fetchH[h].hit.kind = "response"

\* The state part of C10: a handler that found its request in the store has
\* answered with the stored response, made no network fetch and started no
\* cache write.
C10_HitState ==
    \A h \in Started :
        CacheHit(h)
        => /\ fetchH[h].pc = "done"
           /\ fetchH[h].delivered = fetchH[h].hit
           /\ fetchH[h].hit.body[1] = fetchH[h].req
           /\ ~fetchH[h].fetched
           /\ fetchH[h].net = NoValue
           /\ fetchH[h].wpc = "none"
           /\ ~fetchH[h].wrote

\* The step part of C10: the step in which an app-asset handler finds its
\* request in the store answers with what the store holds for the key and
\* changes no store.
C10_HitStep ==
    \A h \in FetchEvents :
        (/\ fetchH[h].pc = "match"
         /\ fetchH[h].class = "app"
         /\ fetchH'[h].pc # "match"
         /\ CachesMatch(fetchH[h].req) # Undefined)
        => /\ fetchH'[h].pc = "done"
           /\ fetchH'[h].delivered = CachesMatch(fetchH[h].req)
           /\ storeData' = storeData
           /\ storeOrder' = storeOrder

\* C10: for every app-asset request whose key is present in the store, the
\* handler returns the stored response, performs no network fetch and leaves
\* every cache store unchanged.
C10_HitServedFromCache ==
    [](C10_HitState) /\ [][C10_HitStep]_vars

\* A request for index.html was answered from the seeded store.
C10_Witness ==
    \E h \in Settled :
        /\ CacheHit(h)
        /\ fetchH[h].req = "index"
        /\ fetchH[h].delivered = SeedResponse("index")
        /\ ~fetchH[h].fetched

\* The entries, in any store, that cache.addAll fetched.
SeededEntries ==
    UNION {{e \in storeData[n] : e.resp.body[2] = "install"} : n \in StoreNames}

\* The state part of C11: after a failed seed no store holds an entry that
\* the seed fetched.
C11_FailedSeedState ==
    install.seed = "failed" => SeededEntries = {}

\* The step part of C11: the step in which addAll fails changes no store, and
\* once the install listener's chain has ended it does nothing more (no
\* retry).
C11_FailedSeedStep ==
    /\ (install.pc = "opened" /\ install'.seed = "failed")
          => (storeData' = storeData /\ storeOrder' = storeOrder)
    /\ install.pc = "done" => install' = install

\* C11: when a manifest fetch fails during seed, the bulk insert is
\* all-or-nothing: the current-version store's contents are the same as
\* before the attempt, holding none of the entries the attempt fetched, and
\* the seed is not retried.
C11_FailedSeedAllOrNothing ==
    [](C11_FailedSeedState) /\ [][C11_FailedSeedStep]_vars

\* A seed failed over a store that already held the root document of an
\* earlier run; the store still holds exactly that entry when the worker is
\* activated.
C11_Witness ==
    /\ install.seed = "failed"
    /\ lifecycle = "activated"
    /\ fetchH[1].pc = "idle"
    /\ storeData[CACHE_NAME] = {[key |-> "root", resp |-> OldResponse("root")]}

\* Fetch event h missed the cache and the network answered with a response
\* that is not a normal 200 response.
UncacheableMiss(h) ==
    /\ fetchH[h].class \in {"app", "sdk"}
    /\ fetchH[h].hit = Undefined
    /\ fetchH[h].net.kind = "response"
    /\ (fetchH[h].net.status # 200 \/ fetchH[h].net.type # "basic")

\* C12: a network response obtained on a cache miss that is not a normal 200
\* response (status other than 200, or type other than basic) is returned to
\* the caller unchanged and is never written to any cache store.
C12_UncacheableNeverStored ==
    \A h \in FetchEvents :
        UncacheableMiss(h)
        => /\ fetchH[h].pc = "done"
           /\ fetchH[h].delivered = fetchH[h].net
           /\ fetchH[h].wpc = "none"
           /\ ~fetchH[h].wrote
           /\ \A n \in StoreNames : \A e \in storeData[n] : e.resp # fetchH[h].net

\* An app-asset miss answered with 404 and, in the v1 worker, an app-asset
\* miss answered with a cross-origin (cors) 200 response were both returned
\* and not stored.
C12_Witness ==
    /\ worker = "v1"
    /\ \E h \in Settled :
          /\ UncacheableMiss(h)
          /\ fetchH[h].net.status = 404
          /\ fetchH[h].delivered = fetchH[h].net
    /\ \E h \in Settled :
          /\ UncacheableMiss(h)
          /\ fetchH[h].net.status = 200
          /\ fetchH[h].net.type = "cors"
          /\ fetchH[h].delivered = fetchH[h].net

\* C13 as stated: on a cache miss with a cacheable network response, once
\* the respondWith promise has resolved the entry for the request is present
\* in the current-version store.
C13_StoredBeforeReturned ==
    \A h \in FetchEvents :
        (/\ fetchH[h].class = "app"
         /\ fetchH[h].hit = Undefined
         /\ IsCacheable(fetchH[h].net)
         /\ fetchH[h].pc \in {"respond", "done"})
        => /\ fetchH[h].wpc = "done"
           /\ EntriesFor(fetchH[h].req) # {}

\* The fetch events for request r whose cache write stored an entry.
Writers(r) ==
    {h \in FetchEvents : fetchH[h].req = r /\ fetchH[h].wrote}

\* The state part of C14: the store never holds two entries for one key, and
\* when two handlers for the same key both missed and both finished their
\* writes, each caller got its own network response and the one entry for
\* the key is the response of one of the writers.
C14_RaceState ==
    /\ \A r \in FetchRequests : Cardinality(EntriesFor(r)) <= 1
    /\ \A h1, h2 \in FetchEvents :
          (/\ h1 # h2
           /\ fetchH[h1].req = fetchH[h2].req
           /\ CacheableMissFinished(h1) /\ fetchH[h1].wpc = "done"
           /\ CacheableMissFinished(h2) /\ fetchH[h2].wpc = "done")
          => /\ fetchH[h1].delivered = fetchH[h1].net
             /\ fetchH[h2].delivered = fetchH[h2].net
             /\ fetchH[h1].net # fetchH[h2].net
             /\ Cardinality(EntriesFor(fetchH[h1].req)) = 1
             /\ EntriesFor(fetchH[h1].req) \subseteq
                   {[key |-> fetchH[h1].req, resp |-> fetchH[h].net] :
                       h \in Writers(fetchH[h1].req)}

\* The step part of C14: a completed cache.put leaves the writer's response
\* as the one entry of its key and changes the entry of no other key.
C14_RaceStep ==
    \A h \in FetchEvents :
        (fetchH[h].wpc = "put" /\ fetchH'[h].wpc = "done")
        => /\ {e \in storeData'[CACHE_NAME] : e.key = fetchH[h].req}
                 = {[key |-> fetchH[h].req, resp |-> fetchH[h].net]}
           /\ \A n \in StoreNames :
                 {e \in storeData'[n] : e.key # fetchH[h].req}
                    = {e \in storeData[n] : e.key # fetchH[h].req}
           /\ storeOrder' = storeOrder

\* C14: when two fetch handlers for the same uncached app-asset key both
\* miss, both callers get their own network response, and once both writes
\* finished the store holds exactly one entry for the key, the response of
\* the write that happened last; no entry of another key is changed.
C14_LastWriterWins ==
    [](C14_RaceState) /\ [][C14_RaceStep]_vars

\* Fetch events 1 and 2 both missed app.js, both wrote, and the entry left
\* in the store is the response of event 1, so event 1's write came last.
C14_Witness ==
    /\ fetchH[1].req = "appjs" /\ fetchH[2].req = "appjs"
    /\ CacheableMissFinished(1) /\ fetchH[1].wpc = "done"
    /\ CacheableMissFinished(2) /\ fetchH[2].wpc = "done"
    /\ fetchH[1].delivered = fetchH[1].net
    /\ fetchH[2].delivered = fetchH[2].net
    /\ EntriesFor("appjs") = {[key |-> "appjs", resp |-> fetchH[1].net]}

\* C15: clients.claim() is called in the activate event, by the first
\* listener, and only after every delete that listener started has
\* completed: no delete of that listener is pending when control is
\* claimed, and control is claimed before the event ends.
C15_ClaimAfterDeletes ==
    /\ claimed => /\ activate["first"].pc = "done"
                  /\ activate["first"].pending = {}
                  /\ lifecycle \in {"activating", "activated"}
    /\ activate["first"].pc = "done" => claimed
    /\ lifecycle = "activated" => claimed

\* Control was claimed, while the event was still running, by a listener
\* that had deleted stale stores.
C15_Witness ==
    /\ claimed
    /\ lifecycle = "activating"
    /\ activate["first"].pending = {}
    /\ "workbox-precache" \in deletedStores

\* C16: while the activate event runs in a state where the only existing
\* store is the one named by the current version tag, no step of either
\* activate listener deletes a store or changes the stores' names or
\* contents.
C16_ActivateNoOp ==
    [][(lifecycle = "activating" /\ storeOrder = <<CACHE_NAME>>)
         => /\ storeOrder' = storeOrder
            /\ storeData' = storeData
            /\ deletedStores' = deletedStores]_vars

\* Both listeners of the v2 worker ran where only the current store existed
\* (holding the root document of an earlier run): nothing was deleted and
\* the store is as it was.
C16_Witness ==
    /\ worker = "v2"
    /\ lifecycle = "activated"
    /\ activate["first"].pc = "done"
    /\ activate["second"].pc = "done"
    /\ deletedStores = {}
    /\ storeOrder = <<"raj-app-v2">>
    /\ install.seed = "failed"
    /\ storeData["raj-app-v2"] = {[key |-> "root", resp |-> OldResponse("root")]}

\* Fetch event h asks for a Firebase SDK file: its hostname contains
\* gstatic.com and its path contains 'firebase'.
SdkAssetEvent(h) ==
    /\ h \in Started
    /\ Includes(Hostname(fetchH[h].req), S_gstatic)
    /\ Includes(Pathname(fetchH[h].req), S_firebase)

\* C17: a request to an SDK-asset host is handled cache-first: the handler
\* answers through respondWith after looking in the cache; on a hit the
\* stored response is returned without a network fetch, and on a miss the
\* network is consulted and the response it gives is returned.
C17_SdkCacheFirst ==
    \A h \in FetchEvents :
        SdkAssetEvent(h)
        => /\ fetchH[h].responded
           /\ fetchH[h].pc # "match" => fetchH[h].cacheRead
           /\ fetchH[h].hit.kind = "response" =>
                 /\ fetchH[h].pc = "done"
                 /\ fetchH[h].delivered = fetchH[h].hit
                 /\ fetchH[h].hit.body[1] = fetchH[h].req
                 /\ ~fetchH[h].fetched
           /\ (fetchH[h].hit = Undefined /\ fetchH[h].pc = "done") =>
                 /\ fetchH[h].fetched
                 /\ fetchH[h].net.kind = "response" =>
                       /\ fetchH[h].delivered = fetchH[h].net
                       /\ fetchH[h].net.body = Body(fetchH[h].req, "fetch", h)

\* The v2 worker answered one request for the SDK file from the seeded store
\* without a fetch.
C17_Witness ==
    /\ worker = "v2"
    /\ \E h \in Settled :
          /\ SdkAssetEvent(h)
          /\ fetchH[h].class = "sdk"
          /\ fetchH[h].hit = SeedResponse("sdkApp")
          /\ fetchH[h].delivered = fetchH[h].hit
          /\ ~fetchH[h].fetched

\* C18 as stated: a navigation whose network fetch fails falls back to the
\* cached index.html and, when index.html is not cached but the root
\* document is, to the root document's stored response.
C18_FallbackToRoot ==
    \A h \in FetchEvents :
        (/\ worker = "v2"
         /\ fetchH[h].class = "app"
         /\ IsNavigate(fetchH[h].req)
         /\ fetchH[h].hit = Undefined
         /\ NetworkFailed(h)
         /\ fetchH[h].pc = "done")
        => /\ (CachesMatch("index") # Undefined /\ Writers("index") = {})
                 => fetchH[h].delivered = CachesMatch("index")
           /\ (CachesMatch("index") = Undefined /\ CachesMatch("root") # Undefined)
                 => fetchH[h].delivered = CachesMatch("root")

\* C19: once the activate event has completed, the fetch handlers create and
\* write only the store named by the current version tag: no store with
\* another name exists or holds an entry, a lookup over all stores gives what
\* the current-version store holds, and every handler that started a cache
\* write or was served a hit was served its own key.
C19_OnlyCurrentStoreUsed ==
    lifecycle = "activated"
    => /\ \A n \in StoreNames \ {CACHE_NAME} : ~Exists(n) /\ storeData[n] = {}
       /\ \A r \in FetchRequests :
             CachesMatch(r) = CacheMatch(storeData[CACHE_NAME], r)
       /\ \A h \in FetchEvents :
             /\ fetchH[h].wpc \in {"put", "done"} => Exists(CACHE_NAME)
             /\ fetchH[h].wrote => EntriesFor(fetchH[h].req) # {}
             /\ fetchH[h].hit.kind = "response" =>
                   fetchH[h].hit.body[1] = fetchH[h].req

\* With the v2 worker active, one handler stored app.js in raj-app-v2 and a
\* later handler was served that entry, raj-app-v2 being the only store.
C19_Witness ==
    /\ worker = "v2"
    /\ lifecycle = "activated"
    /\ storeOrder = <<"raj-app-v2">>
    /\ fetchH[1].req = "appjs" /\ fetchH[1].wrote
    /\ fetchH[2].req = "appjs" /\ fetchH[2].pc = "done"
    /\ fetchH[2].hit = fetchH[1].net
    /\ fetchH[2].delivered = fetchH[1].net

====
